---- MODULE Spec2Model ----
(***************************************************************************)
(* WebRTC signaling relay (socket.io server) and the sender / receiver     *)
(* clients that negotiate peer sessions through it.                        *)
(*                                                                         *)
(*   SpecRelay : the server alone, driven by links that emit any of its    *)
(*               events with any arguments.                                *)
(*   Spec      : the server together with two clients, each running the    *)
(*               repository's client code: a sender page (AutoSenderApp or *)
(*               SenderApp) with a receiver page, or the two sender pages. *)
(*   SpecTrio  : the server with two sender pages and a receiver page.     *)
(*   SpecRejoin: a sender and a receiver whose peer connection is lost and *)
(*               whose reconnect timeout emits join-room again.            *)
(*   SpecMedia : the two sender pages acquiring the camera, with the       *)
(*               scheduling of their retry timers.                         *)
(*   SpecStats : the receiver's stats interval callback on its reports.    *)
(*   SpecSdp   : the clients patching the descriptions they make and take. *)
(*   SpecLinks : the auto sender creating a link on every connect error.    *)
(*   SpecOffers: a receiver taking the offers of two senders, rejoining    *)
(*               and disconnecting.                                        *)
(***************************************************************************)
EXTENDS Integers, Sequences, FiniteSets, TLC

\* ---------------------------------------------------------------- bounds
MaxLinks == 3      \* raw links that connect over a run of the relay alone
MaxSockets == 4    \* sockets the clients open over a run
MaxInbox == 2      \* undelivered messages per link
MaxPc == 3         \* peer connections constructed over a run
NumCands == 1      \* ICE candidates one peer connection gathers
MaxPcTrio == 5     \* peer connections constructed over a run of three clients
MaxTimers == 1     \* reconnect timeouts a receiver has pending at a time
MaxPolls == 3      \* reports the stats interval callback is run on
MaxSections == 2   \* media sections of a session description
MaxOldLinks == 1   \* links of an auto sender replaced by a later connectAndStream
MaxStreams == 2    \* media streams a sender acquires over a run

\* ------------------------------------------------------- program constants
ROOM_ID == 101     \* the configured room id ('raspberry-pi-stream')
NoTarget == 0      \* targetId omitted (undefined, falsy)
NoSocket == 0      \* socketRef.current / peerConnectionRef.current === null

Ids == 1..MaxSockets
RawIds == 1..MaxLinks
RoomIds == {ROOM_ID}
Names == RawIds \cup RoomIds
\* Room ids are arbitrary strings, so a link may name a room after a socket id; the
\* raw links try this with the first socket's id.
JoinNames == RoomIds \cup {1}
\* The opaque payloads a raw link sends.
Blobs == {"sdpA", "sdpB"}

\* S1 runs AutoSenderApp, S2 runs SenderApp, R1 runs ReceiverApp.
Senders == {"S1", "S2"}
Receivers == {"R1"}
Auto == {"S1"}
\* The clients of one run: a sender with a receiver, or the two senders.
Populations == {{"S1", "R1"}, {"S2", "R1"}, {"S1", "S2"}}
Clients == Senders \cup Receivers
Handles == 1..MaxPc
HandlesTrio == 1..MaxPcTrio

VARIABLES
    connected,   \* server: ids of the live sockets
    rooms,       \* server: rooms[s] = the rooms socket s is in (its own id included)
    inbox,       \* inbox[s] = events the server sent to socket s, not yet handled
    last,        \* the event a raw link emitted last and the links it reached
    nextId,      \* the next socket id the transport assigns
    present,     \* the clients that take part in this run
    sock,        \* client: socketRef.current and whether 'connect' was handled
    stream,      \* sender: localStreamRef.current is set
    gum,         \* sender: position of startStream (getUserMedia)
    sessions,    \* sender: peerConnectionsRef.current, userId -> handle
    pcRef,       \* receiver: peerConnectionRef.current (a handle or NoSocket)
    pcs,         \* the peer connections constructed so far, by handle
    lost,        \* client: candidates handed to a handler and not added to a session
    statsIntervalRef, \* receiver: statsIntervalRef.current holds a running interval
    isReceiving, \* receiver: the isReceiving state; the video element exists iff set
    monitor,     \* receiver: bitrateRef, the stats shown, the frame counter
    descs,       \* client: the description made last, what was set and what was sent
    links,       \* auto sender: the transport links connectAndStream has created
    live,        \* sender: media streams acquired and not stopped
    timers       \* client: reconnect timeouts set and not yet fired

serverVars == <<connected, rooms, inbox, nextId, last>>
clientVars == <<present, sock, stream, gum, sessions, pcRef, pcs, lost,
                statsIntervalRef, isReceiving, monitor, descs, links, live, timers>>
monitorVars == <<statsIntervalRef, isReceiving, monitor>>
vars == <<connected, rooms, inbox, last, nextId,
          present, sock, stream, gum, sessions, pcRef, pcs, lost,
          statsIntervalRef, isReceiving, monitor, descs, links, live, timers>>

\* ------------------------------------------------------ receiver statistics

\* Date.now() where the model reads the clock, and the times and counters of the
\* reports polled, in ms and bytes; a field of a report that is absent reads as 0
\* (both are falsy). Fields the report gives in seconds are held in ms.
StartTimes == {1000}
Times == {2000, 3000, 4000}
ByteCounts == {0, 1000, 3000, 7000}
Jitters == {0, 5}
RoundTrips == {0, 20}
DecodeTimes == {0, 30}
FrameCounts == {0, 10}

\* A value the monitor derived: the quotient num / den, or none.
None == [some |-> FALSE, num |-> 0, den |-> 1]
Quot(num, den) == [some |-> TRUE, num |-> num, den |-> den]

\* bitrateRef as created by useRef and as reset by pc.ontrack; stats as created by
\* useState; no frame counter runs; nothing polled.
InitMonitor(now) ==
    [bitrateRef |-> [lastByteCount |-> 0, lastTimestamp |-> now],
     bitrate |-> None, latency |-> None, counting |-> FALSE, polled |-> <<>>]

\* The bitrate part of the interval callback for a report with bytesReceived bytes
\* and timestamp ts: the value derived, and bitrateRef afterwards.
Bitrate(ref, bytes, ts) ==
    IF bytes # 0 /\ ts # 0 /\ ref.lastTimestamp > 0
    THEN Quot(8 * (bytes - ref.lastByteCount) * 1000, ts - ref.lastTimestamp)
    ELSE None

NextBitrateRef(ref, bytes, ts) ==
    IF bytes # 0 /\ ts # 0 THEN [lastByteCount |-> bytes, lastTimestamp |-> ts] ELSE ref

\* The latency part of the callback: jitter, plus the round trip time of a
\* remote-candidate report, plus the average decode time; all inside if (report.jitter).
Latency(jitter, rtt, decode, frames) ==
    IF jitter # 0
    THEN IF decode # 0 /\ frames # 0 /\ frames > 0
         THEN Quot((jitter + rtt) * frames + decode, frames)
         ELSE Quot(jitter + rtt, 1)
    ELSE None

\* One run of the interval callback on the report of an inbound video stream.
StatsCallback(m, bytes, ts, jitter, rtt, decode, frames) ==
    [m EXCEPT !.bitrateRef = NextBitrateRef(@, bytes, ts),
              !.bitrate = IF Bitrate(m.bitrateRef, bytes, ts).some
                          THEN Bitrate(m.bitrateRef, bytes, ts) ELSE @,
              !.latency = IF Latency(jitter, rtt, decode, frames).some
                          THEN Latency(jitter, rtt, decode, frames) ELSE @,
              !.polled = Append(@, [bytes |-> bytes, ts |-> ts,
                                    jitter |-> jitter, rtt |-> rtt,
                                    decode |-> decode, frames |-> frames,
                                    bitrate |-> Bitrate(m.bitrateRef, bytes, ts),
                                    latency |-> Latency(jitter, rtt, decode, frames)])]

\* pc.ontrack: everything it does is inside if (videoRef.current && event.streams[0]),
\* and the video element is rendered only while isReceiving is set. With the element:
\* isReceiving is set, startStatsMonitoring sets the interval, setupFrameCounter
\* starts counting, bitrateRef is reset. Without it nothing happens.
OnTrack(c, now) ==
    IF isReceiving[c]
    THEN /\ isReceiving' = isReceiving
         /\ statsIntervalRef' = [statsIntervalRef EXCEPT ![c] = TRUE]
         /\ monitor' = [monitor EXCEPT ![c].counting = TRUE,
                                       ![c].bitrateRef = [lastByteCount |-> 0,
                                                          lastTimestamp |-> now]]
    ELSE UNCHANGED monitorVars

\* ---------------------------------------------------- session descriptions

\* The text of a session description, as its media sections in order: the kind
\* named by the m= line and the lines that follow it.
Kinds == {"video", "audio"}
SectionLines == {<<>>, <<"a=rtcp-fb:96 nack">>, <<"a=sendonly", "a=rtcp-fb:96 nack">>,
                 <<"a=rtcp-fb:96 transport-cc", "a=rtcp-fb:96 nack">>}
Sections == [kind : Kinds, lines : SectionLines]
Sdps == UNION {[1..n -> Sections] : n \in 0..MaxSections}

\* sdp.replace(/(m=video.*\r\n)/g, '$1' + line): the line is put right after every
\* m=video line.
AfterVideo(sdp, line) ==
    [i \in DOMAIN sdp |->
        IF sdp[i].kind = "video" THEN [sdp[i] EXCEPT !.lines = <<line>> \o @] ELSE sdp[i]]

\* sdp.replace(/(a=rtcp-fb.*\r\n)/g, ''): every feedback line of every section goes.
IsFeedback(line) ==
    line \in {"a=rtcp-fb:96 nack", "a=rtcp-fb:96 transport-cc", "a=rtcp-fb:* transport-cc"}
NotFeedback(line) == ~IsFeedback(line)
StripFeedback(sdp) == [i \in DOMAIN sdp |-> [sdp[i] EXCEPT !.lines = SelectSeq(@, NotFeedback)]]

\* A patch that adds its lines and strips nothing.
AutoOfferPatchMut(sdp) ==
    AfterVideo(AfterVideo(sdp, "b=AS:2500"), "a=rtcp-fb:* transport-cc")

\* The patch of AutoSenderApp on the offer it created.
AutoOfferPatch(sdp) ==
    AfterVideo(StripFeedback(AfterVideo(sdp, "b=AS:2500")), "a=rtcp-fb:* transport-cc")

\* The patch of ReceiverApp on the offer it received.
ReceivedOfferPatch(sdp) ==
    AfterVideo(AfterVideo(sdp, "a=content:main"), "a=rtcp-fb:* transport-cc")

\* The patch of ReceiverApp on the answer it created.
AnswerPatch(sdp) == AfterVideo(AfterVideo(sdp, "b=AS:2500"), "a=content:main")

NoDesc == [by |-> "none", kind |-> "none", made |-> <<>>, set |-> <<>>, sent |-> <<>>,
           from |-> "none"]

\* ------------------------------------------------------------------ server

NoEvent == [ev |-> "none", from |-> NoSocket, room |-> NoTarget,
            target |-> NoTarget, payload |-> NoTarget, to |-> {}]

\* Members of a room: the live sockets that are in it.
Members(r) == {t \in connected : r \in rooms[t]}

\* socket.to(r): every socket in room r except the emitting socket.
ToOthersMut(s, r) == Members(r)
ToOthers(s, r) == Members(r) \ {s}

\* io.emit: every live socket.
ToAll == connected

Msg(ev, payload, from) == [ev |-> ev, payload |-> payload, from |-> from]

Deliver(T, m) == [t \in Ids |-> IF t \in T THEN Append(inbox[t], m) ELSE inbox[t]]

\* The links whose inbox grew in this step.
Reached == {t \in Ids : Len(inbox'[t]) > Len(inbox[t])}

HasRoom(T) == \A t \in T : Len(inbox[t]) < MaxInbox

\* io.on('connection'): a new socket with a fresh id, in the room named by its id.
Connection(s) ==
    /\ s = nextId
    /\ s \in Ids
    /\ nextId' = nextId + 1
    /\ connected' = connected \cup {s}
    /\ rooms' = [rooms EXCEPT ![s] = {s}]
    /\ inbox' = [inbox EXCEPT ![s] = <<>>]

\* socket.on('join-room')
JoinRoomMut(s, roomId) ==
    /\ s \in connected
    /\ HasRoom(ToAll \ {s})
    /\ rooms' = [rooms EXCEPT ![s] = @ \cup {roomId}]
    /\ inbox' = Deliver(ToAll \ {s}, Msg("user-connected", s, s))
    /\ UNCHANGED <<connected, nextId>>
JoinRoomOnce(s, roomId) ==
    /\ s \in connected
    /\ HasRoom(ToOthers(s, roomId))
    /\ rooms' = [rooms EXCEPT ![s] = @ \cup {roomId}]
    /\ inbox' = IF roomId \in rooms[s] THEN inbox
                ELSE Deliver(ToOthers(s, roomId), Msg("user-connected", s, s))
    /\ UNCHANGED <<connected, nextId>>
JoinRoom(s, roomId) ==
    /\ s \in connected
    /\ HasRoom(ToOthers(s, roomId))
    /\ rooms' = [rooms EXCEPT ![s] = @ \cup {roomId}]
    /\ inbox' = Deliver(ToOthers(s, roomId), Msg("user-connected", s, s))
    /\ UNCHANGED <<connected, nextId>>

\* The recipients of an offer: the target if one is given, else the room.
OfferTo(s, roomId, targetId) ==
    IF targetId # NoTarget THEN ToOthers(s, targetId) ELSE ToOthers(s, roomId)

\* socket.on('offer')
RelayOffer(s, offer, roomId, targetId) ==
    /\ s \in connected
    /\ HasRoom(OfferTo(s, roomId, targetId))
    /\ inbox' = Deliver(OfferTo(s, roomId, targetId), Msg("offer", offer, s))
    /\ UNCHANGED <<connected, rooms, nextId>>

\* A relay that names the target as the sender of the answer.
RelayAnswerMut(s, answer, targetId) ==
    /\ s \in connected
    /\ HasRoom(ToOthers(s, targetId))
    /\ inbox' = Deliver(ToOthers(s, targetId), Msg("answer", answer, targetId))
    /\ UNCHANGED <<connected, rooms, nextId>>

\* socket.on('answer')
RelayAnswer(s, answer, targetId) ==
    /\ s \in connected
    /\ HasRoom(ToOthers(s, targetId))
    /\ inbox' = Deliver(ToOthers(s, targetId), Msg("answer", answer, s))
    /\ UNCHANGED <<connected, rooms, nextId>>

\* socket.on('ice-candidate')
RelayCandidate(s, candidate, targetId) ==
    /\ s \in connected
    /\ HasRoom(ToOthers(s, targetId))
    /\ inbox' = Deliver(ToOthers(s, targetId), Msg("ice-candidate", candidate, s))
    /\ UNCHANGED <<connected, rooms, nextId>>

\* socket.on('disconnect'): the socket has left its rooms and the server's socket
\* list when the handler runs; io.emit reaches every socket still connected.
DisconnectMut(s) ==
    /\ s \in connected
    /\ HasRoom(ToAll \ {s})
    /\ connected' = connected \ {s}
    /\ rooms' = [rooms EXCEPT ![s] = {}]
    /\ inbox' = [t \in Ids |->
                    IF t = s THEN <<>>
                    ELSE IF t \in connected /\ rooms[t] \cap rooms[s] # {}
                         THEN Append(inbox[t], Msg("user-disconnected", s, s))
                    ELSE inbox[t]]
    /\ UNCHANGED nextId
Disconnect(s) ==
    /\ s \in connected
    /\ HasRoom(ToAll \ {s})
    /\ connected' = connected \ {s}
    /\ rooms' = [rooms EXCEPT ![s] = {}]
    /\ inbox' = [t \in Ids |->
                    IF t = s THEN <<>>
                    ELSE IF t \in connected THEN Append(inbox[t], Msg("user-disconnected", s, s))
                    ELSE inbox[t]]
    /\ UNCHANGED nextId

\* ------------------------------------------------- the server driven by raw links

InitServer ==
    /\ connected = {}
    /\ rooms = [s \in Ids |-> {}]
    /\ inbox = [s \in Ids |-> <<>>]
    /\ nextId = 1

\* No client has connected: no socket, no stream, no session.
InitClients ==
    /\ sock = [c \in Clients |-> [id |-> NoSocket, up |-> FALSE]]
    /\ stream = [c \in Senders |-> FALSE]
    /\ gum = [c \in Senders |-> "idle"]
    /\ sessions = [c \in Senders |-> [u \in Ids |-> NoSocket]]
    /\ pcRef = [c \in Receivers |-> NoSocket]
    /\ pcs = <<>>
    /\ lost = [c \in Clients |-> {}]
    /\ statsIntervalRef = [c \in Receivers |-> FALSE]
    /\ isReceiving = [c \in Receivers |-> FALSE]
    /\ descs = NoDesc
    /\ links = [c \in Auto |-> <<>>]
    /\ live = [c \in Senders |-> 0]
    /\ \E now \in StartTimes : monitor = [c \in Receivers |-> InitMonitor(now)]
    /\ timers = [c \in Clients |-> 0]

InitRelay == InitServer /\ InitClients /\ last = NoEvent /\ present = {}

\* Raw links handle what the server sent them before the next event is emitted.
Quiet == \A t \in Ids : inbox[t] = <<>>

\* What the server's console.log lines say of an event, and the links it reached; of a
\* join-room also whether the link was in the room before, of a disconnect whether
\* the link had joined the configured room.
Log(ev, s, roomId, targetId, payload) ==
    last' = [ev |-> ev, from |-> s, room |-> roomId, target |-> targetId,
             payload |-> payload, to |-> Reached]

RawConnect ==
    \E s \in RawIds :
        Quiet /\ Connection(s) /\ Log("connection", s, NoTarget, NoTarget, NoTarget)
              /\ UNCHANGED clientVars
RawJoin ==
    \E s \in RawIds, r \in JoinNames :
        Quiet /\ JoinRoom(s, r)
              /\ Log("join-room", s, r, NoTarget, IF r \in rooms[s] THEN "again" ELSE "first")
              /\ UNCHANGED clientVars
RawOffer ==
    \E s \in RawIds, b \in Blobs, r \in JoinNames, t \in Names \cup {NoTarget} :
        Quiet /\ RelayOffer(s, b, r, t) /\ Log("offer", s, r, t, b)
              /\ UNCHANGED clientVars
RawAnswer ==
    \E s \in RawIds, b \in Blobs, t \in Names :
        Quiet /\ RelayAnswer(s, b, t) /\ Log("answer", s, NoTarget, t, b)
              /\ UNCHANGED clientVars
RawCandidate ==
    \E s \in RawIds, b \in Blobs, t \in Names :
        Quiet /\ RelayCandidate(s, b, t) /\ Log("ice-candidate", s, NoTarget, t, b)
              /\ UNCHANGED clientVars
RawDisconnect ==
    \E s \in RawIds :
        Quiet /\ Disconnect(s)
              /\ Log("disconnect", s, IF ROOM_ID \in rooms[s] THEN ROOM_ID ELSE NoTarget,
                     NoTarget, NoTarget)
              /\ UNCHANGED clientVars
\* The raw links take the events the server sent them.
RawReceive ==
    /\ ~Quiet
    /\ inbox' = [t \in Ids |-> <<>>]
    /\ UNCHANGED <<connected, rooms, last, nextId>>
    /\ UNCHANGED clientVars

NextRelay ==
    \/ RawConnect
    \/ RawJoin
    \/ RawOffer
    \/ RawAnswer
    \/ RawCandidate
    \/ RawDisconnect
    \/ RawReceive

SpecRelay == InitRelay /\ [][NextRelay]_vars

\* ------------------------------------------------------------ peer connections

\* No offer was received on a peer connection.
NoOffer == [pc |-> NoSocket, tracks |-> FALSE]

\* new RTCPeerConnection(...): nothing negotiated yet.
NewPc(c, u, tracks, step, offer) ==
    [owner |-> c, peer |-> u, closed |-> FALSE, tracks |-> tracks, step |-> step,
     local |-> FALSE, remote |-> FALSE, offer |-> offer, inbound |-> FALSE,
     toGather |-> 0, applied |-> {}, queued |-> {}, early |-> {}, failed |-> FALSE]

\* A close() that leaves the connection open.
ClosedMut(pc) == pc

\* pc.close(): the handle is released and nothing of its negotiation is used again;
\* the promise of a step in flight stays as it is, never settled.
Closed(pc) == [NewPc(pc.owner, pc.peer, FALSE, pc.step, NoOffer) EXCEPT !.closed = TRUE]

\* pc.addIceCandidate(candidate). The call waits behind a setRemoteDescription in
\* progress; without a remote description the connection rejects it.
AddIceCandidate(pc, cand) ==
    IF pc.closed THEN pc
    ELSE IF pc.step = "setRemote" THEN [pc EXCEPT !.queued = @ \cup {cand}]
    ELSE IF pc.remote THEN [pc EXCEPT !.applied = @ \cup {cand}]
    ELSE [pc EXCEPT !.early = @ \cup {cand}]

\* pc.setRemoteDescription(answer) on the offering side: accepted only while the
\* connection has a local offer and no remote description yet.
SetRemoteAnswer(pc) ==
    IF ~pc.closed /\ pc.local /\ ~pc.remote THEN [pc EXCEPT !.remote = TRUE] ELSE pc

\* ------------------------------------------------------------------ clients

\* The peer connections a run may construct.
PcBound == IF Cardinality(present) > 2 THEN MaxPcTrio ELSE MaxPc

Sid(c) == sock[c].id
Pending(c) == Sid(c) # NoSocket /\ sock[c].up /\ inbox[Sid(c)] # <<>>
Event(c) == Head(inbox[Sid(c)])
\* The handler took the event; nothing was emitted.
Taken(c) ==
    /\ inbox' = [inbox EXCEPT ![Sid(c)] = Tail(@)]
    /\ UNCHANGED <<connected, rooms, nextId, last>>

\* io(serverUrl): the transport connects and the server assigns the socket its id.
Connect(c) ==
    /\ c \in present
    /\ Sid(c) = NoSocket
    /\ Connection(nextId)
    /\ UNCHANGED last
    /\ sock' = [sock EXCEPT ![c] = [id |-> nextId, up |-> FALSE]]
    /\ UNCHANGED <<present, stream, gum, sessions, pcRef, pcs, lost,
                   monitorVars, descs, links, live, timers>>

\* A connect handler that starts streaming and joins no room.
OnConnectMut(c) ==
    /\ Sid(c) # NoSocket
    /\ ~sock[c].up
    /\ sock' = [sock EXCEPT ![c].up = TRUE]
    /\ gum' = IF c \in Auto THEN [gum EXCEPT ![c] = "pending"] ELSE gum
    /\ UNCHANGED <<serverVars, present, stream, sessions, pcRef, pcs, lost,
                   monitorVars, descs, links, live, timers>>

\* socket.on('connect'): join the room; the auto sender then starts streaming.
OnConnect(c) ==
    /\ Sid(c) # NoSocket
    /\ ~sock[c].up
    /\ JoinRoom(Sid(c), ROOM_ID)
    /\ UNCHANGED last
    /\ sock' = [sock EXCEPT ![c].up = TRUE]
    /\ gum' = IF c \in Auto THEN [gum EXCEPT ![c] = "pending"] ELSE gum
    /\ UNCHANGED <<present, stream, sessions, pcRef, pcs, lost,
                   monitorVars, descs, links, live, timers>>

\* The transport of a client closes (network loss, socket.disconnect()).
LinkDown(c) ==
    /\ Sid(c) # NoSocket
    /\ Disconnect(Sid(c))
    /\ UNCHANGED last
    /\ sock' = [sock EXCEPT ![c] = [id |-> NoSocket, up |-> FALSE]]
    /\ UNCHANGED <<present, stream, gum, sessions, pcRef, pcs, lost,
                   monitorVars, descs, links, live, timers>>

\* The receiver's Disconnect button: the socket and the peer connection are closed.
ClickDisconnect(c) ==
    /\ c \in Receivers
    /\ Sid(c) # NoSocket
    /\ sock[c].up
    /\ Disconnect(Sid(c))
    /\ UNCHANGED last
    /\ sock' = [sock EXCEPT ![c] = [id |-> NoSocket, up |-> FALSE]]
    /\ pcRef' = [pcRef EXCEPT ![c] = NoSocket]
    /\ pcs' = IF pcRef[c] # NoSocket THEN [pcs EXCEPT ![pcRef[c]] = Closed(@)] ELSE pcs
    /\ isReceiving' = [isReceiving EXCEPT ![c] = FALSE]
    /\ UNCHANGED <<present, stream, gum, sessions, lost, statsIntervalRef, monitor,
                   descs, links, live, timers>>

\* ------------------------------------------------------------------- sender

\* createPeerConnection(userId), up to its first await: a new connection replaces the
\* map entry of userId, the local tracks are added, createOffer is called.
SenderCreate(c, u) ==
    /\ pcs' = Append(pcs, NewPc(c, u, stream[c], "createOffer", NoOffer))
    /\ sessions' = [sessions EXCEPT ![c][u] = Len(pcs) + 1]

\* socket.on('user-connected')
OnUserConnected(c) ==
    /\ c \in Senders
    /\ Pending(c)
    /\ Event(c).ev = "user-connected"
    /\ Len(pcs) < PcBound
    /\ SenderCreate(c, Event(c).payload)
    /\ Taken(c)
    /\ UNCHANGED <<present, sock, stream, gum, pcRef, lost, monitorVars, descs, links, live, timers>>

\* socket.on('user-disconnected'): close and delete the session of userId, if any.
DisconnectedMut(c, u) ==
    /\ pcs' = [h \in DOMAIN pcs |-> IF pcs[h].owner = c THEN Closed(pcs[h]) ELSE pcs[h]]
    /\ sessions' = [sessions EXCEPT ![c] = [v \in Ids |-> NoSocket]]
Disconnected(c, u) ==
    IF sessions[c][u] # NoSocket
    THEN /\ pcs' = [pcs EXCEPT ![sessions[c][u]] = Closed(@)]
         /\ sessions' = [sessions EXCEPT ![c][u] = NoSocket]
    ELSE UNCHANGED <<pcs, sessions>>

OnUserDisconnected(c) ==
    /\ c \in Senders
    /\ Pending(c)
    /\ Event(c).ev = "user-disconnected"
    /\ Disconnected(c, Event(c).payload)
    /\ Taken(c)
    /\ UNCHANGED <<present, sock, stream, gum, pcRef, lost, monitorVars, descs, links, live, timers>>

\* socket.on('ice-candidate') of a sender: added to the session of userId, if any.
SenderCandidate(c, cand, u) ==
    IF sessions[c][u] # NoSocket
    THEN /\ pcs' = [pcs EXCEPT ![sessions[c][u]] = AddIceCandidate(@, cand)]
         /\ lost' = lost
    ELSE /\ pcs' = pcs
         /\ lost' = [lost EXCEPT ![c] = @ \cup {cand}]

OnSenderCandidate(c) ==
    /\ c \in Senders
    /\ Pending(c)
    /\ Event(c).ev = "ice-candidate"
    /\ SenderCandidate(c, Event(c).payload, Event(c).from)
    /\ Taken(c)
    /\ UNCHANGED <<present, sock, stream, gum, sessions, pcRef,
                   monitorVars, descs, links, live, timers>>

\* socket.on('answer'): set as remote description on the session of userId, if any.
OnAnswer(c) ==
    /\ c \in Senders
    /\ Pending(c)
    /\ Event(c).ev = "answer"
    /\ pcs' = IF sessions[c][Event(c).from] # NoSocket
              THEN [pcs EXCEPT ![sessions[c][Event(c).from]] = SetRemoteAnswer(@)]
              ELSE pcs
    /\ Taken(c)
    /\ UNCHANGED <<present, sock, stream, gum, sessions, pcRef, lost,
                   monitorVars, descs, links, live, timers>>

\* An event the client registered no handler for is discarded.
Handled(c) ==
    IF c \in Senders
    THEN {"user-connected", "user-disconnected", "ice-candidate", "answer"}
    ELSE {"offer", "ice-candidate"}

OnOther(c) ==
    /\ Pending(c)
    /\ Event(c).ev \notin Handled(c)
    /\ Taken(c)
    /\ UNCHANGED clientVars

\* What a client emits reaches the server only while its socket is connected.
Emits(c, relay) ==
    IF Sid(c) # NoSocket THEN relay /\ UNCHANGED last ELSE UNCHANGED serverVars

\* The open peer connections of client c: a closed connection resolves no promise and
\* fires no event.
MineMut(c, p) == p \in DOMAIN pcs /\ pcs[p].owner = c
Mine(c, p) == p \in DOMAIN pcs /\ pcs[p].owner = c /\ ~pcs[p].closed

\* createPeerConnection(userId) of a sender after its awaits: the offer was created
\* and set as local description; it is sent to userId and ICE gathering starts.
OfferReady(c, p) ==
    /\ c \in Senders
    /\ Mine(c, p)
    /\ pcs[p].step = "createOffer"
    /\ pcs' = [pcs EXCEPT ![p].local = TRUE, ![p].step = "idle", ![p].toGather = NumCands]
    /\ Emits(c, RelayOffer(Sid(c), [pc |-> p, tracks |-> pcs[p].tracks],
                           ROOM_ID, pcs[p].peer))
    /\ UNCHANGED <<present, sock, stream, gum, sessions, pcRef, lost,
                   monitorVars, descs, links, live, timers>>

\* The id a client names as target of a gathered candidate: the sender names the
\* user of the session, the receiver names socketRef.current.id.
CandidateTarget(c, p) == IF c \in Senders THEN pcs[p].peer ELSE Sid(c)

\* pc.onicecandidate
Gather(c, p) ==
    /\ Mine(c, p)
    /\ pcs[p].local
    /\ pcs[p].toGather > 0
    /\ pcs' = [pcs EXCEPT ![p].toGather = @ - 1]
    /\ Emits(c, RelayCandidate(Sid(c), [pc |-> p, n |-> pcs[p].toGather],
                               CandidateTarget(c, p)))
    /\ UNCHANGED <<present, sock, stream, gum, sessions, pcRef, lost,
                   monitorVars, descs, links, live, timers>>

\* The Start Streaming button of SenderApp (enabled once connected).
StartStream(c) ==
    /\ c \in Senders
    /\ c \notin Auto
    /\ sock[c].up
    /\ ~stream[c]
    /\ gum[c] = "idle"
    /\ gum' = [gum EXCEPT ![c] = "pending"]
    /\ UNCHANGED <<serverVars, present, sock, stream, sessions, pcRef, pcs, lost,
                   monitorVars, descs, links, live, timers>>


Keys(c) == {u \in Ids : sessions[c][u] # NoSocket}
Rank(c, u) == Cardinality({v \in Keys(c) : v < u})
UserAt(c, k) == CHOOSE u \in Keys(c) : Rank(c, u) = k

\* startStream after getUserMedia resolved: the stream is kept, and every session
\* in the map is closed, deleted and created again.
GumOk(c) ==
    /\ c \in Senders
    /\ gum[c] = "pending"
    /\ Len(pcs) + Cardinality(Keys(c)) <= PcBound
    /\ live[c] < MaxStreams
    /\ gum' = [gum EXCEPT ![c] = "idle"]
    /\ stream' = [stream EXCEPT ![c] = TRUE]
    /\ live' = [live EXCEPT ![c] = @ + 1]
    /\ pcs' = [h \in 1..(Len(pcs) + Cardinality(Keys(c))) |->
                 IF h <= Len(pcs)
                 THEN IF pcs[h].owner = c /\ \E u \in Keys(c) : sessions[c][u] = h
                      THEN Closed(pcs[h]) ELSE pcs[h]
                 ELSE NewPc(c, UserAt(c, h - Len(pcs) - 1), TRUE, "createOffer", NoOffer)]
    /\ sessions' = [sessions EXCEPT ![c] =
                      [u \in Ids |-> IF u \in Keys(c) THEN Len(pcs) + Rank(c, u) + 1
                                     ELSE NoSocket]]
    /\ UNCHANGED <<serverVars, present, sock, pcRef, lost, monitorVars, descs, links, timers>>


\* startStream after getUserMedia rejected: the auto sender sets a timeout of two
\* seconds that calls startStream again; SenderApp shows the error and stops.
GumFail(c) ==
    /\ c \in Senders
    /\ gum[c] = "pending"
    /\ gum' = [gum EXCEPT ![c] = IF c \in Auto THEN "retry" ELSE "idle"]
    /\ UNCHANGED <<serverVars, present, sock, stream, sessions, pcRef, pcs, lost,
                   monitorVars, descs, links, live, timers>>

\* The timeout of the auto sender fires: getUserMedia is called again.
GumRetry(c) ==
    /\ c \in Senders
    /\ gum[c] = "retry"
    /\ gum' = [gum EXCEPT ![c] = "pending"]
    /\ UNCHANGED <<serverVars, present, sock, stream, sessions, pcRef, pcs, lost,
                   monitorVars, descs, links, live, timers>>

\* ------------------------------------------------------------------ receiver

\* A createPeerConnection() that leaves the connection referenced open.
ReceiverCreateMut(c, u, offer) ==
    /\ pcs' = Append(pcs, NewPc(c, u, FALSE, "setRemote", offer))
    /\ pcRef' = [pcRef EXCEPT ![c] = Len(pcs) + 1]

\* createPeerConnection() of a receiver: the connection referenced is closed and a
\* new one takes its place.
ReceiverCreate(c, u, offer) ==
    /\ pcs' = Append(IF pcRef[c] # NoSocket THEN [pcs EXCEPT ![pcRef[c]] = Closed(@)]
                     ELSE pcs,
                     NewPc(c, u, FALSE, "setRemote", offer))
    /\ pcRef' = [pcRef EXCEPT ![c] = Len(pcs) + 1]

\* socket.on('offer'), up to the await of setRemoteDescription.
OnOffer(c) ==
    /\ c \in Receivers
    /\ Pending(c)
    /\ Event(c).ev = "offer"
    /\ Len(pcs) < PcBound
    /\ ReceiverCreate(c, Event(c).from, Event(c).payload)
    /\ Taken(c)
    /\ UNCHANGED <<present, sock, stream, gum, sessions, lost,
                   monitorVars, descs, links, live, timers>>

\* socket.on('ice-candidate') of a receiver: added to the connection referenced.
ReceiverCandidate(c, cand) ==
    IF pcRef[c] # NoSocket
    THEN /\ pcs' = [pcs EXCEPT ![pcRef[c]] = AddIceCandidate(@, cand)]
         /\ lost' = lost
    ELSE /\ pcs' = pcs
         /\ lost' = [lost EXCEPT ![c] = @ \cup {cand}]

OnReceiverCandidate(c) ==
    /\ c \in Receivers
    /\ Pending(c)
    /\ Event(c).ev = "ice-candidate"
    /\ ReceiverCandidate(c, Event(c).payload)
    /\ Taken(c)
    /\ UNCHANGED <<present, sock, stream, gum, sessions, pcRef,
                   monitorVars, descs, links, live, timers>>

\* setRemoteDescription(offer) resolved: the candidates that waited behind it are
\* added, a track of the offer is delivered (pc.ontrack), createAnswer is called.
RemoteSet(c, p) ==
    /\ c \in Receivers
    /\ Mine(c, p)
    /\ pcs[p].step = "setRemote"
    /\ pcs' = [pcs EXCEPT ![p].remote = TRUE, ![p].inbound = pcs[p].offer.tracks,
                          ![p].applied = @ \cup pcs[p].queued, ![p].queued = {},
                          ![p].step = "createAnswer"]
    /\ IF pcs[p].offer.tracks
       THEN \E now \in StartTimes : OnTrack(c, now)
       ELSE UNCHANGED monitorVars
    /\ UNCHANGED <<serverVars, present, sock, stream, gum, sessions, pcRef, lost,
                   descs, links, live, timers>>

\* An answer made and sent while setRemoteDescription is still in progress.
AnswerReadyMut(c, p) ==
    /\ c \in Receivers
    /\ Mine(c, p)
    /\ pcs[p].step = "setRemote"
    /\ pcs' = [pcs EXCEPT ![p].local = TRUE, ![p].step = "idle", ![p].toGather = NumCands]
    /\ Emits(c, RelayAnswer(Sid(c), [pc |-> p, re |-> pcs[p].offer.pc], pcs[p].peer))
    /\ UNCHANGED <<present, sock, stream, gum, sessions, pcRef, lost,
                   monitorVars, descs, links, live, timers>>

\* createAnswer and setLocalDescription(answer) resolved: the answer is sent to the
\* offering user and ICE gathering starts.
AnswerReady(c, p) ==
    /\ c \in Receivers
    /\ Mine(c, p)
    /\ pcs[p].step = "createAnswer"
    /\ pcs' = [pcs EXCEPT ![p].local = TRUE, ![p].step = "idle", ![p].toGather = NumCands]
    /\ Emits(c, RelayAnswer(Sid(c), [pc |-> p, re |-> pcs[p].offer.pc], pcs[p].peer))
    /\ UNCHANGED <<present, sock, stream, gum, sessions, pcRef, lost,
                   monitorVars, descs, links, live, timers>>


\* A negotiation step (createOffer, setLocalDescription, setRemoteDescription,
\* createAnswer) is rejected by the connection: the catch of the handler logs the
\* error. The addIceCandidate calls that waited behind a rejected
\* setRemoteDescription then run without a remote description.
StepFail(c, p) ==
    /\ Mine(c, p)
    /\ pcs[p].step # "idle"
    /\ pcs' = [pcs EXCEPT ![p].step = "idle", ![p].queued = {},
                          ![p].early = @ \cup pcs[p].queued]
    /\ UNCHANGED <<serverVars, present, sock, stream, gum, sessions, pcRef, lost,
                   monitorVars, descs, links, live, timers>>

\* The connection state of a negotiated connection becomes 'failed' or
\* 'disconnected' (its ICE transport lost the peer). A receiver's
\* pc.onconnectionstatechange sets a timeout of two seconds; the sender pages
\* register no handler for the event.
ConnectionLost(c, p) ==
    /\ Mine(c, p)
    /\ pcs[p].remote
    /\ pcs[p].local
    /\ ~pcs[p].failed
    /\ c \in Receivers => timers[c] < MaxTimers
    /\ pcs' = [pcs EXCEPT ![p].failed = TRUE]
    /\ timers' = IF c \in Receivers THEN [timers EXCEPT ![c] = @ + 1] ELSE timers
    /\ UNCHANGED <<serverVars, present, sock, stream, gum, sessions, pcRef, lost,
                   monitorVars, descs, links, live>>

\* The timeout of a receiver that emits nothing when it fires.
RejoinTimerMut(c) ==
    /\ c \in Receivers
    /\ timers[c] > 0
    /\ timers' = [timers EXCEPT ![c] = @ - 1]
    /\ UNCHANGED <<serverVars, present, sock, stream, gum, sessions, pcRef, pcs, lost,
                   monitorVars, descs, links, live>>

\* The timeout fires: join-room is emitted again if the socket is connected.
RejoinTimer(c) ==
    /\ c \in Receivers
    /\ timers[c] > 0
    /\ timers' = [timers EXCEPT ![c] = @ - 1]
    /\ IF Sid(c) # NoSocket /\ sock[c].up
       THEN JoinRoom(Sid(c), ROOM_ID) /\ UNCHANGED last
       ELSE UNCHANGED serverVars
    /\ UNCHANGED <<present, sock, stream, gum, sessions, pcRef, pcs, lost,
                   monitorVars, descs, links, live>>

\* ----------------------------------------------------------- the whole system

Init == InitServer /\ InitClients /\ last = NoEvent /\ present \in Populations

Next ==
    \/ \E c \in Clients : Connect(c)
    \/ \E c \in Clients : OnConnect(c)
    \/ \E c \in Clients : LinkDown(c)
    \/ \E c \in Clients : ClickDisconnect(c)
    \/ \E c \in Clients : OnUserConnected(c)
    \/ \E c \in Clients : OnUserDisconnected(c)
    \/ \E c \in Clients : OnSenderCandidate(c)
    \/ \E c \in Clients : OnAnswer(c)
    \/ \E c \in Clients : OnOther(c)
    \/ \E c \in Clients, p \in Handles : OfferReady(c, p)
    \/ \E c \in Clients, p \in Handles : Gather(c, p)
    \/ \E c \in Clients : StartStream(c)
    \/ \E c \in Clients : GumOk(c)
    \/ \E c \in Clients : OnOffer(c)
    \/ \E c \in Clients : OnReceiverCandidate(c)
    \/ \E c \in Clients, p \in Handles : RemoteSet(c, p)
    \/ \E c \in Clients, p \in Handles : AnswerReady(c, p)
    \/ \E c \in Clients, p \in Handles : StepFail(c, p)

Spec == Init /\ [][Next]_vars

\* ------------------------------------------- two senders and a receiver in a room

\* Both sender pages and the receiver page are open. No link drops, no negotiation
\* step is rejected and no camera is granted in these runs.
InitTrio == InitServer /\ InitClients /\ last = NoEvent /\ present = Clients

NextTrio ==
    \/ \E c \in Clients : Connect(c)
    \/ \E c \in Clients : OnConnect(c)
    \/ \E c \in Clients : OnUserConnected(c)
    \/ \E c \in Clients : OnSenderCandidate(c)
    \/ \E c \in Clients : OnAnswer(c)
    \/ \E c \in Clients : OnOther(c)
    \/ \E c \in Clients, p \in HandlesTrio : OfferReady(c, p)
    \/ \E c \in Clients, p \in HandlesTrio : Gather(c, p)
    \/ \E c \in Clients : OnOffer(c)
    \/ \E c \in Clients : OnReceiverCandidate(c)
    \/ \E c \in Clients, p \in HandlesTrio : RemoteSet(c, p)
    \/ \E c \in Clients, p \in HandlesTrio : AnswerReady(c, p)

SpecTrio == InitTrio /\ [][NextTrio]_vars

\* ------------------------- a sender and a receiver whose connection is lost

InitRejoin == InitServer /\ InitClients /\ last = NoEvent /\ present = {"S1", "R1"}

NextRejoin ==
    \/ \E c \in Clients : Connect(c)
    \/ \E c \in Clients : OnConnect(c)
    \/ \E c \in Clients : LinkDown(c)
    \/ \E c \in Clients : OnUserConnected(c)
    \/ \E c \in Clients : OnUserDisconnected(c)
    \/ \E c \in Clients : OnAnswer(c)
    \/ \E c \in Clients : OnOther(c)
    \/ \E c \in Clients, p \in Handles : OfferReady(c, p)
    \/ \E c \in Clients, p \in Handles : Gather(c, p)
    \/ \E c \in Clients : GumOk(c)
    \/ \E c \in Clients : OnOffer(c)
    \/ \E c \in Clients : OnReceiverCandidate(c)
    \/ \E c \in Clients, p \in Handles : RemoteSet(c, p)
    \/ \E c \in Clients, p \in Handles : AnswerReady(c, p)
    \/ \E c \in Clients, p \in Handles : ConnectionLost(c, p)
    \/ \E c \in Clients : RejoinTimer(c)

SpecRejoin == InitRejoin /\ [][NextRejoin]_vars

\* ------------------------------ two senders whose media acquisition may fail

InitMedia == InitServer /\ InitClients /\ last = NoEvent /\ present = {"S1", "S2"}

NextMedia ==
    \/ \E c \in Clients : Connect(c)
    \/ \E c \in Clients : OnConnect(c)
    \/ \E c \in Clients : OnUserConnected(c)
    \/ \E c \in Clients : OnSenderCandidate(c)
    \/ \E c \in Clients : OnOther(c)
    \/ \E c \in Clients, p \in Handles : OfferReady(c, p)
    \/ \E c \in Clients, p \in Handles : Gather(c, p)
    \/ \E c \in Clients : StartStream(c)
    \/ \E c \in Clients : GumOk(c)
    \/ \E c \in Clients : GumFail(c)
    \/ \E c \in Clients : GumRetry(c)

\* Handlers, continuations and timeouts that can run do run; a getUserMedia that is
\* called again and again resolves at some call (acquisition succeeds from some
\* attempt on). No button is ever bound to be clicked.
FairMedia ==
    /\ \A c \in Clients :
         /\ WF_vars(Connect(c))
         /\ WF_vars(OnConnect(c))
         /\ WF_vars(OnUserConnected(c))
         /\ WF_vars(OnSenderCandidate(c))
         /\ WF_vars(OnOther(c))
         /\ WF_vars(GumRetry(c))
         /\ SF_vars(GumOk(c))
         /\ \A p \in Handles : WF_vars(OfferReady(c, p)) /\ WF_vars(Gather(c, p))

SpecMedia == InitMedia /\ [][NextMedia]_vars /\ FairMedia

\* ------------------------------------- the interval callback on its reports

\* A report the callback can be handed after the reports polled so far: the
\* counter of bytes received never decreases, and time passes before the first poll
\* and between two polls.
NextReport(m, bytes, ts) ==
    IF m.polled = <<>>
    THEN ts > m.bitrateRef.lastTimestamp
    ELSE /\ bytes >= m.polled[Len(m.polled)].bytes
         /\ ts > m.polled[Len(m.polled)].ts

\* The interval callback of receiver c runs on a report.
ApplyStats(c) ==
    /\ c \in Receivers
    /\ Len(monitor[c].polled) < MaxPolls
    /\ \E bytes \in ByteCounts, ts \in Times, jitter \in Jitters, rtt \in RoundTrips,
          decode \in DecodeTimes, frames \in FrameCounts :
         /\ NextReport(monitor[c], bytes, ts)
         /\ monitor' = [monitor EXCEPT
                          ![c] = StatsCallback(@, bytes, ts, jitter, rtt, decode, frames)]
    /\ UNCHANGED <<serverVars, present, sock, stream, gum, sessions, pcRef, pcs, lost,
                   statsIntervalRef, isReceiving, descs, links, live, timers>>

InitStats == InitServer /\ InitClients /\ last = NoEvent /\ present = {"R1"}

NextStats == \E c \in Clients : ApplyStats(c)

SpecStats == InitStats /\ [][NextStats]_vars

\* --------------------------------------- the clients on their descriptions

\* createPeerConnection of a sender from createOffer to the emit: AutoSenderApp
\* patches the offer, SenderApp passes it on as created.
MakeOffer(c) ==
    /\ c \in Senders
    /\ \E sdp \in Sdps :
         descs' = [by |-> c, kind |-> "offer", made |-> sdp,
                   set |-> IF c \in Auto THEN AutoOfferPatch(sdp) ELSE sdp,
                   sent |-> IF c \in Auto THEN AutoOfferPatch(sdp) ELSE sdp,
                   from |-> "none"]
    /\ UNCHANGED <<serverVars, present, sock, stream, gum, sessions, pcRef, pcs, lost,
                   monitorVars, links, live, timers>>

\* The offer handler of a receiver up to setRemoteDescription, on the offer a sender
\* page sent last (the relay passes it on as it is) or on the offer of another peer.
TakeOffer(c) ==
    /\ c \in Receivers
    /\ \/ /\ descs.kind = "offer"
          /\ descs' = [by |-> c, kind |-> "remote", made |-> descs.sent,
                       set |-> ReceivedOfferPatch(descs.sent), sent |-> <<>>,
                       from |-> descs.by]
       \/ \E sdp \in Sdps :
            descs' = [by |-> c, kind |-> "remote", made |-> sdp,
                      set |-> ReceivedOfferPatch(sdp), sent |-> <<>>, from |-> "none"]
    /\ UNCHANGED <<serverVars, present, sock, stream, gum, sessions, pcRef, pcs, lost,
                   monitorVars, links, live, timers>>

\* The offer handler of a receiver from createAnswer to the emit.
MakeAnswer(c) ==
    /\ c \in Receivers
    /\ \E sdp \in Sdps :
         descs' = [by |-> c, kind |-> "answer", made |-> sdp,
                   set |-> AnswerPatch(sdp), sent |-> AnswerPatch(sdp), from |-> "none"]
    /\ UNCHANGED <<serverVars, present, sock, stream, gum, sessions, pcRef, pcs, lost,
                   monitorVars, links, live, timers>>

InitSdp == InitServer /\ InitClients /\ last = NoEvent /\ present = Clients

NextSdp ==
    \/ \E c \in Clients : MakeOffer(c)
    \/ \E c \in Clients : TakeOffer(c)
    \/ \E c \in Clients : MakeAnswer(c)

SpecSdp == InitSdp /\ [][NextSdp]_vars

\* ------------------------------------------- the links of the auto sender

\* socket.on('connect_error') of the auto sender: the link socketRef refers to failed
\* to connect; connectAndStream is set to run again in two seconds. The link itself
\* stays as it is and keeps trying (reconnectionAttempts: Infinity).
ConnectError(c) ==
    /\ c \in Auto
    /\ c \in present
    /\ Sid(c) = NoSocket
    /\ timers[c] < MaxTimers
    /\ timers' = [timers EXCEPT ![c] = @ + 1]
    /\ UNCHANGED <<serverVars, present, sock, stream, gum, sessions, pcRef, pcs, lost,
                   monitorVars, descs, links, live>>

\* The timeout fires: connectAndStream calls io(serverUrl) again and stores the new
\* link in socketRef; the link it held before is neither closed nor forgotten by the
\* transport.
ConnectAgain(c) ==
    /\ c \in Auto
    /\ timers[c] > 0
    /\ Len(links[c]) < MaxOldLinks
    /\ timers' = [timers EXCEPT ![c] = @ - 1]
    /\ links' = [links EXCEPT ![c] = Append(@, sock[c])]
    /\ sock' = [sock EXCEPT ![c] = [id |-> NoSocket, up |-> FALSE]]
    /\ UNCHANGED <<serverVars, present, stream, gum, sessions, pcRef, pcs, lost,
                   monitorVars, descs, live>>

\* A link replaced earlier connects: the server assigns it an id.
OldConnect(c, i) ==
    /\ c \in Auto
    /\ i \in DOMAIN links[c]
    /\ links[c][i].id = NoSocket
    /\ Connection(nextId)
    /\ UNCHANGED last
    /\ links' = [links EXCEPT ![c][i] = [id |-> nextId, up |-> FALSE]]
    /\ UNCHANGED <<present, sock, stream, gum, sessions, pcRef, pcs, lost,
                   monitorVars, descs, live, timers>>

\* socket.on('connect') of a link replaced earlier: join-room is emitted on the link
\* socketRef refers to now, and startStream is called.
OldOnConnect(c, i) ==
    /\ c \in Auto
    /\ i \in DOMAIN links[c]
    /\ links[c][i].id # NoSocket
    /\ ~links[c][i].up
    /\ links' = [links EXCEPT ![c][i].up = TRUE]
    /\ Emits(c, JoinRoom(Sid(c), ROOM_ID))
    /\ gum' = [gum EXCEPT ![c] = "pending"]
    /\ UNCHANGED <<present, sock, stream, sessions, pcRef, pcs, lost,
                   monitorVars, descs, live, timers>>

\* socket.on('user-connected') of a link replaced earlier: the same handler, on the
\* same session map.
OldUserConnected(c, i) ==
    /\ c \in Auto
    /\ i \in DOMAIN links[c]
    /\ links[c][i].up
    /\ inbox[links[c][i].id] # <<>>
    /\ Len(pcs) < PcBound
    /\ IF Head(inbox[links[c][i].id]).ev = "user-connected"
       THEN SenderCreate(c, Head(inbox[links[c][i].id]).payload)
       ELSE UNCHANGED <<pcs, sessions>>
    /\ inbox' = [inbox EXCEPT ![links[c][i].id] = Tail(@)]
    /\ UNCHANGED <<connected, rooms, nextId, last>>
    /\ UNCHANGED <<present, sock, stream, gum, pcRef, lost, monitorVars, descs, links,
                   live, timers>>

InitLinks == InitServer /\ InitClients /\ last = NoEvent /\ present = {"S1", "R1"}

NextLinks ==
    \/ \E c \in Clients : Connect(c)
    \/ \E c \in Clients : OnConnect(c)
    \/ \E c \in Clients : ConnectError(c)
    \/ \E c \in Clients : ConnectAgain(c)
    \/ \E c \in Clients, i \in 1..MaxOldLinks : OldConnect(c, i)
    \/ \E c \in Clients, i \in 1..MaxOldLinks : OldOnConnect(c, i)
    \/ \E c \in Clients, i \in 1..MaxOldLinks : OldUserConnected(c, i)
    \/ \E c \in Clients : OnUserConnected(c)
    \/ \E c \in Clients : OnAnswer(c)
    \/ \E c \in Clients : OnOther(c)
    \/ \E c \in Clients, p \in Handles : OfferReady(c, p)
    \/ \E c \in Clients : OnOffer(c)
    \/ \E c \in Clients, p \in Handles : RemoteSet(c, p)
    \/ \E c \in Clients, p \in Handles : AnswerReady(c, p)

SpecLinks == InitLinks /\ [][NextLinks]_vars

\* ------------------- a receiver taking offers, rejoining and disconnecting

\* Both sender pages and the receiver page are open; the receiver's connection may
\* be lost, its timeout rejoins the room, and its Disconnect button is clicked. No
\* candidates are gathered in these runs.
InitOffers == InitServer /\ InitClients /\ last = NoEvent /\ present = Clients

NextOffers ==
    \/ \E c \in Clients : Connect(c)
    \/ \E c \in Clients : OnConnect(c)
    \/ \E c \in Clients : ClickDisconnect(c)
    \/ \E c \in Clients : OnUserConnected(c)
    \/ \E c \in Clients : OnUserDisconnected(c)
    \/ \E c \in Clients : OnAnswer(c)
    \/ \E c \in Clients : OnOther(c)
    \/ \E c \in Clients, p \in HandlesTrio : OfferReady(c, p)
    \/ \E c \in Clients : OnOffer(c)
    \/ \E c \in Clients, p \in HandlesTrio : RemoteSet(c, p)
    \/ \E c \in Clients, p \in HandlesTrio : AnswerReady(c, p)
    \/ \E c \in Receivers, p \in HandlesTrio : ConnectionLost(c, p)
    \/ \E c \in Clients : RejoinTimer(c)

SpecOffers == InitOffers /\ [][NextOffers]_vars

\* ------------------------------------------------------------ relay claims

\* C1: when a member of a room emits an offer without targetId for that room, the
\* offer reaches exactly the other members of the room: not the emitter, and no link
\* that has not joined the room.
C1_BroadcastOffer ==
    (last.ev = "offer" /\ last.target = NoTarget /\ last.from \in Members(last.room))
        => /\ last.to = Members(last.room) \ {last.from}
           /\ Quiet \/ \A t \in Ids :
                  inbox[t] = IF t \in last.to
                             THEN <<Msg("offer", last.payload, last.from)>> ELSE <<>>

\* A member broadcast an offer to a room of two while a third link, outside the
\* room, was connected.
C1_Witness ==
    /\ last.ev = "offer"
    /\ last.target = NoTarget
    /\ last.room = ROOM_ID
    /\ last.from \in Members(last.room)
    /\ Cardinality(Members(last.room)) = 2
    /\ connected \ Members(last.room) # {}
    /\ last.to # {}

\* C2: an answer or ice-candidate whose targetId is the id of a live link reaches
\* exactly one recipient, that link.
C2_TargetedExactlyOne ==
    (last.ev \in {"answer", "ice-candidate"} /\ last.target \in connected)
        => last.to = {last.target}

\* C3: an offer, answer or ice-candidate whose targetId is the id of a participant
\* that is gone reaches no recipient.
C3_UnroutableDropped ==
    (/\ last.ev \in {"offer", "answer", "ice-candidate"}
     /\ last.target \in Ids
     /\ last.target < nextId
     /\ last.target \notin connected)
        => last.to = {}

\* C11: every link is a member of at most one room besides the room socket.io names
\* after its own id, whatever rooms it asked to join.
C11_AtMostOneRoom == \A s \in connected : Cardinality(rooms[s] \ {s}) <= 1

\* C12: a join-room puts the joiner into the room and sends user-connected(joiner)
\* to exactly the links that were in the room before it, the joiner not among them;
\* no link outside the room and not the joiner itself is sent anything.
C12_JoinAnnounced ==
    last.ev = "join-room"
        => /\ last.from \in Members(last.room)
           /\ last.to = Members(last.room) \ {last.from}
           /\ Quiet \/ \A t \in Ids :
                  inbox[t] = IF t \in last.to
                             THEN <<Msg("user-connected", last.from, last.from)>> ELSE <<>>

\* A link joined the configured room that had one member, while a third link was
\* connected and outside the room.
C12_Witness ==
    /\ last.ev = "join-room"
    /\ last.room = ROOM_ID
    /\ last.payload = "first"
    /\ Cardinality(last.to) = 1
    /\ connected \ Members(ROOM_ID) # {}
    /\ ~Quiet

\* C13: a link that joins a room it is in already leaves every room's members as
\* they were; the one effect is user-connected(joiner) sent again to the others.
C13_RejoinIdempotent ==
    [][\A s \in RawIds, r \in JoinNames :
          (/\ Quiet
           /\ s \in connected
           /\ r \in rooms[s]
           /\ last'.ev = "join-room"
           /\ last'.from = s
           /\ last'.room = r)
              => /\ rooms' = rooms
                 /\ connected' = connected
                 /\ nextId' = nextId
                 /\ \A t \in Ids :
                        inbox'[t] = IF t \in Members(r) \ {s}
                                    THEN <<Msg("user-connected", s, s)>> ELSE <<>>]_vars

\* A link joined the configured room a second time and the other member of the room
\* was sent user-connected again.
C13_Witness ==
    /\ last.ev = "join-room"
    /\ last.room = ROOM_ID
    /\ last.payload = "again"
    /\ last.to # {}
    /\ ~Quiet

\* C14: after a disconnect the link is in no room and not connected, and
\* user-disconnected(id) was sent once to every link still connected, whatever rooms
\* it is in, and to no other.
C14_DisconnectBroadcast ==
    last.ev = "disconnect"
        => /\ last.from \notin connected
           /\ rooms[last.from] = {}
           /\ \A r \in Names : last.from \notin Members(r)
           /\ last.to = connected
           /\ Quiet \/ \A t \in Ids :
                  inbox[t] = IF t \in connected
                             THEN <<Msg("user-disconnected", last.from, last.from)>> ELSE <<>>

\* A member of the configured room disconnected while one link in the configured room and one link that had
\* joined no room were connected; both were sent user-disconnected.
C14_Witness ==
    /\ last.ev = "disconnect"
    /\ last.room = ROOM_ID
    /\ ~Quiet
    /\ \E t \in connected : ROOM_ID \in rooms[t]
    /\ \E t \in connected : rooms[t] = {t}
    /\ Cardinality(last.to) = 2

\* C15: an offer, answer or ice-candidate reaches only links that share a room with
\* the emitting link.
C15_SameRoomOnly ==
    last.ev \in {"offer", "answer", "ice-candidate"}
        => \A t \in last.to : rooms[t] \cap rooms[last.from] # {}

\* ----------------------------------------------------------- client claims

\* The candidates peer connection p gathers.
CandsOf(p) == {[pc |-> p, n |-> k] : k \in 1..NumCands}

\* Nothing is in flight and no handler or continuation is left to run.
Settled ==
    /\ \A t \in Ids : inbox[t] = <<>>
    /\ \A c \in Senders : gum[c] = "idle"
    /\ \A p \in DOMAIN pcs : pcs[p].closed \/ (pcs[p].step = "idle" /\ pcs[p].toGather = 0)

\* One sender and one receiver, each on the first socket it opened, both in the room.
Pair(s, r) ==
    /\ present = {s, r}
    /\ s \in Senders
    /\ r \in Receivers
    /\ nextId = 3
    /\ sock[s].up
    /\ sock[r].up

\* C4: on sender and receiver, addIceCandidate never runs on a peer session that has
\* no remote description: no session has a candidate that was added early.
C4_NeverAddedEarly == \A p \in DOMAIN pcs : pcs[p].early = {}

\* C5: a candidate that reaches a client before the remote description of its session
\* is set, or before the session exists, is kept: the handler discards no candidate,
\* and a session whose remote description is set has applied all that waited for it.
C5_NeverDropped ==
    /\ \A c \in Clients : lost[c] = {}
    /\ \A p \in DOMAIN pcs : (pcs[p].remote /\ pcs[p].step # "setRemote") => pcs[p].queued = {}

\* C6: the sender joined, then the receiver; when their handshake has run to its end
\* without a rejected step, the sender's session has the answer as remote description
\* and each side has applied the candidates the other side gathered.
C6_Handshake ==
    \A s \in Senders, r \in Receivers :
        (/\ Pair(s, r)
         /\ Sid(s) = 1
         /\ Settled
         /\ Len(pcs) = 2
         /\ sessions[s][Sid(r)] = 1
         /\ pcRef[r] = 2
         /\ pcs[1].local
         /\ pcs[2].local)
            => /\ pcs[1].remote
               /\ pcs[2].applied = CandsOf(1)
               /\ pcs[1].applied = CandsOf(2)

\* The events a step adds to the inbox of link t.
Added(t) == {inbox'[t][i] : i \in (Len(inbox[t]) + 1)..Len(inbox'[t])}

\* C7: when a session of a receiver gathers a candidate while the receiver and the
\* offering participant are connected, the server puts that candidate into the
\* offering participant's inbox.
C7_ReceiverCandidateRelayed ==
    [][\A c \in Receivers, p \in DOMAIN pcs :
          (/\ pcs[p].owner = c
           /\ ~pcs[p].closed
           /\ pcs[p].toGather > 0
           /\ ~pcs'[p].closed
           /\ pcs'[p].toGather = pcs[p].toGather - 1
           /\ Sid(c) \in connected
           /\ pcs[p].peer \in connected)
              => \E m \in Added(pcs[p].peer) :
                     /\ m.ev = "ice-candidate"
                     /\ m.from = Sid(c)
                     /\ m.payload.pc = p
                     /\ m.payload.n = pcs[p].toGather]_vars

\* The step is the handler of client c taking event ev from its inbox.
Took(c, ev) ==
    /\ Pending(c)
    /\ Event(c).ev = ev
    /\ sock' = sock
    /\ inbox'[Sid(c)] = Tail(inbox[Sid(c)])

\* C8: a sender that handles user-disconnected(id) while it holds a session for id
\* closes that session and removes its map entry in that one step; the map entries of
\* all other ids and all other peer connections stay as they are.
C8_DisconnectClosesSession ==
    [][\A c \in Senders :
          (Took(c, "user-disconnected") /\ sessions[c][Event(c).payload] # NoSocket)
              => LET u == Event(c).payload
                     h == sessions[c][u]
                 IN /\ pcs'[h].closed
                    /\ sessions'[c][u] = NoSocket
                    /\ \A v \in Ids \ {u} : sessions'[c][v] = sessions[c][v]
                    /\ DOMAIN pcs' = DOMAIN pcs
                    /\ \A k \in DOMAIN pcs \ {h} : pcs'[k] = pcs[k]]_vars

\* A sender closed the session of a participant that left and removed its entry,
\* while it holds an open session for another participant.
C8_Witness ==
    \E c \in Senders, h \in DOMAIN pcs, v \in Ids :
        /\ pcs[h].owner = c
        /\ pcs[h].closed
        /\ sessions[c][pcs[h].peer] = NoSocket
        /\ v # pcs[h].peer
        /\ sessions[c][v] # NoSocket
        /\ sessions[c][v] < h
        /\ ~pcs[sessions[c][v]].closed

C10_OfferAfterStart ==
    \A s \in Senders, r \in Receivers :
        (/\ Pair(s, r)
         /\ stream[s]
         /\ Settled
         /\ \A p \in DOMAIN pcs : (pcs[p].owner = s /\ ~pcs[p].closed) => pcs[p].local)
            => /\ pcRef[r] # NoSocket
               /\ pcs[pcRef[r]].offer.tracks

\* What peer connection q holds of the remote side: its candidates, its remote answer.
RemoteOf(q) == <<q.applied \cup q.queued \cup q.early, q.remote>>

\* C16: on sender and receiver, the handler of an answer or an ICE candidate relayed
\* from participant A changes only the session negotiated with A: a peer connection
\* that takes the candidate or the description in that step has A as its peer.
C16_OwnParticipantOnly ==
    [][\A c \in Clients :
         Took(c, "ice-candidate") \/ Took(c, "answer")
             => \A q \in DOMAIN pcs :
                  RemoteOf(pcs'[q]) # RemoteOf(pcs[q]) => pcs[q].peer = Event(c).from]_vars

\* C17: a sender that handles user-connected(id) while its map holds a session for id
\* closes that session in the step that replaces the map entry: afterwards the prior
\* handle is closed and the entry names a different, open handle.
C17_PriorClosedOnReplace ==
    [][\A c \in Senders :
         (Took(c, "user-connected") /\ sessions[c][Event(c).payload] # NoSocket)
             => /\ pcs'[sessions[c][Event(c).payload]].closed
                /\ sessions'[c][Event(c).payload] # sessions[c][Event(c).payload]
                /\ ~pcs'[sessions'[c][Event(c).payload]].closed]_vars

\* The handles client c refers to: the map entries of a sender, the reference of a
\* receiver.
Referenced(c) ==
    IF c \in Senders THEN {sessions[c][u] : u \in Ids} \ {NoSocket}
    ELSE {pcRef[c]} \ {NoSocket}

\* C18: on every client, in either role, the step that handles user-disconnected(id)
\* destroys the sessions negotiated with id: after it each peer connection of the
\* client with peer id is closed and the client no longer refers to it.
C18_DestroyedOnDisconnect ==
    [][\A c \in Clients :
         Took(c, "user-disconnected")
             => \A p \in DOMAIN pcs :
                  (pcs[p].owner = c /\ pcs[p].peer = Event(c).payload)
                      => pcs'[p].closed /\ p \notin Referenced(c)']_vars

\* C19: a receiver's stats interval never outlives its session: in every state in
\* which the interval is running, the receiver refers to an open peer connection.
\* (No reachable state has the interval running: pc.ontrack never gets to
\* startStatsMonitoring, see C28.)
C19_NoTimerWithoutSession ==
    \A c \in Receivers :
        statsIntervalRef[c] => pcRef[c] # NoSocket /\ ~pcs[pcRef[c]].closed

\* C20: a session whose negotiation step was rejected is abandoned: a peer connection
\* that stopped negotiating without a local description (its createOffer,
\* setRemoteDescription, createAnswer or setLocalDescription failed) is closed and
\* its owner no longer refers to it.
C20_FailedAbandoned ==
    \A p \in DOMAIN pcs :
        (pcs[p].step = "idle" /\ ~pcs[p].local)
            => pcs[p].closed /\ p \notin Referenced(pcs[p].owner)

\* C21: a sender whose media acquisition was started ends up holding a local stream,
\* whatever attempts fail before one succeeds.
C21_AcquisitionRetried ==
    \A c \in Senders : (gum[c] = "pending") ~> stream[c]

\* C22: the step in which the connection state of a sender's session becomes failed
\* or disconnected schedules a room rejoin of that sender.
C22_SenderRejoinScheduled ==
    [][\A p \in DOMAIN pcs :
         (pcs[p].owner \in Senders /\ ~pcs[p].failed /\ pcs'[p].failed)
             => timers'[pcs[p].owner] = timers[pcs[p].owner] + 1]_vars

C24_BitrateFromConsecutivePolls ==
    \A c \in Receivers :
        \A i \in DOMAIN monitor[c].polled :
            IF i = 1
            THEN ~monitor[c].polled[1].bitrate.some
            ELSE /\ monitor[c].polled[i].bitrate.some
                 /\ monitor[c].polled[i].bitrate.num
                        * (monitor[c].polled[i].ts - monitor[c].polled[i - 1].ts)
                    = 8 * (monitor[c].polled[i].bytes - monitor[c].polled[i - 1].bytes)
                        * 1000 * monitor[c].polled[i].bitrate.den

\* The latency terms of a report whose fields are present, as a quotient.
TermsPresent(r) ==
    r.jitter # 0 \/ r.rtt # 0 \/ (r.decode # 0 /\ r.frames > 0)

TermsSum(r) ==
    IF r.decode # 0 /\ r.frames > 0
    THEN Quot((r.jitter + r.rtt) * r.frames + r.decode, r.frames)
    ELSE Quot(r.jitter + r.rtt, 1)

\* C25: the latency of a poll is the sum of the terms whose fields are present
\* (jitter, round trip time, average decode time); a missing field removes its own
\* term only.
C25_LatencyTermsIndependent ==
    \A c \in Receivers :
        \A i \in DOMAIN monitor[c].polled :
            TermsPresent(monitor[c].polled[i])
                => /\ monitor[c].polled[i].latency.some
                   /\ monitor[c].polled[i].latency.num * TermsSum(monitor[c].polled[i]).den
                      = TermsSum(monitor[c].polled[i]).num * monitor[c].polled[i].latency.den

\* C28: the step that delivers the first inbound track to a receiver's session marks
\* the receiver as receiving and starts the stats interval and the frame counter.
C28_TrackStartsMonitoring ==
    [][\A p \in DOMAIN pcs :
         (pcs[p].owner \in Receivers /\ ~pcs[p].inbound /\ pcs'[p].inbound)
             => /\ isReceiving'[pcs[p].owner]
                /\ statsIntervalRef'[pcs[p].owner]
                /\ monitor'[pcs[p].owner].counting]_vars

\* The lines of a section.
LinesOf(section) == {section.lines[i] : i \in DOMAIN section.lines}

\* C26: a description a client made (an offer, an answer) is set locally and sent in
\* one and the same patched form: every video section has the main-content tag, the
\* transport-cc feedback line and the 2500 kbps cap, every other section is as it
\* was made; a description received is set as it was received.
C26_SamePolicy ==
    /\ descs.kind \in {"offer", "answer"}
        => /\ descs.set = descs.sent
           /\ DOMAIN descs.set = DOMAIN descs.made
           /\ \A i \in DOMAIN descs.made :
                IF descs.made[i].kind = "video"
                THEN /\ descs.set[i].kind = "video"
                     /\ {"a=content:main", "a=rtcp-fb:* transport-cc", "b=AS:2500"}
                            \subseteq LinesOf(descs.set[i])
                ELSE descs.set[i] = descs.made[i]
    /\ descs.kind = "remote" => descs.set = descs.made

\* C27: a receiver handles an offer in the order construct the session, set the
\* remote description, create the answer, set the local description, emit the answer
\* to the id the offer came from. A session under construction has no description,
\* one that creates its answer has the remote one only, a local description is never
\* without the remote one; an answer leaves in the step that sets the local
\* description of its session, which had the remote one and no local one before, and
\* reaches the offering id only; and a session whose local description is set while
\* the link is up and the offering id connected has its answer delivered in that step.
C27_AnswerAfterBothSet ==
    [][/\ \A p \in DOMAIN pcs' :
            (pcs'[p].owner \in Receivers /\ ~pcs'[p].closed) =>
                /\ pcs'[p].step = "setRemote" => ~pcs'[p].remote /\ ~pcs'[p].local
                /\ pcs'[p].step = "createAnswer" => pcs'[p].remote /\ ~pcs'[p].local
                /\ pcs'[p].local => pcs'[p].remote
       /\ \A t \in Ids : \A m \in Added(t) :
            m.ev = "answer" =>
                /\ m.payload.pc \in DOMAIN pcs
                /\ pcs[m.payload.pc].owner \in Receivers
                /\ m.from = Sid(pcs[m.payload.pc].owner)
                /\ t = pcs[m.payload.pc].peer
                /\ pcs[m.payload.pc].remote /\ ~pcs[m.payload.pc].local
                /\ pcs'[m.payload.pc].remote /\ pcs'[m.payload.pc].local
                /\ Len(inbox'[t]) = Len(inbox[t]) + 1
       /\ \A p \in DOMAIN pcs :
            (/\ pcs[p].owner \in Receivers
             /\ ~pcs[p].local
             /\ pcs'[p].local
             /\ Sid(pcs[p].owner) # NoSocket
             /\ pcs[p].peer \in connected)
                => \E m \in Added(pcs[p].peer) : m.ev = "answer" /\ m.payload.pc = p]_vars

\* The answer of a receiver's session, both of its descriptions set, waits at the id
\* that offered it.
C27_Witness ==
    \E t \in Ids : \E i \in DOMAIN inbox[t] :
        /\ inbox[t][i].ev = "answer"
        /\ inbox[t][i].payload.pc \in DOMAIN pcs
        /\ pcs[inbox[t][i].payload.pc].remote
        /\ pcs[inbox[t][i].payload.pc].local
        /\ pcs[inbox[t][i].payload.pc].peer = t
        /\ pcs[inbox[t][i].payload.pc].owner \in Receivers

\* C29: every session a sender creates has the local media track attached from its
\* creation on, whenever the user-connected that creates it arrives: an open session
\* of a sender has the track, and so has every offer on its way to a receiver.
C29_TrackOnEverySession ==
    /\ \A p \in DOMAIN pcs : (pcs[p].owner \in Senders /\ ~pcs[p].closed) => pcs[p].tracks
    /\ \A t \in Ids : \A i \in DOMAIN inbox[t] :
         inbox[t][i].ev = "offer" => inbox[t][i].payload.tracks

\* C30: each time the link of a client connects, the connect handler joins the
\* client's socket to the configured room and announces it to the members already
\* there, and on the auto sender media acquisition is under way from that step on; a
\* client whose connect handler has run is a member of its room for as long as its
\* link lasts.
C30_JoinOnEveryConnect ==
    [][/\ \A c \in Clients :
            (~sock[c].up /\ sock'[c].up) =>
                /\ Sid(c) = sock'[c].id
                /\ ROOM_ID \in rooms'[Sid(c)]
                /\ \A t \in ToOthers(Sid(c), ROOM_ID) :
                     Msg("user-connected", Sid(c), Sid(c)) \in Added(t)
                /\ c \in Auto => gum'[c] = "pending"
       /\ \A c \in Clients :
            sock'[c].up => sock'[c].id \in connected' /\ ROOM_ID \in rooms'[sock'[c].id]]_vars

\* Next to a client that kept its first link, the other client is in the room on its
\* second link and announced to the first.
C30_Witness ==
    \E c \in present, d \in present :
        /\ c # d
        /\ Sid(d) = 1
        /\ sock[d].up
        /\ Sid(c) = 3
        /\ sock[c].up
        /\ ROOM_ID \in rooms[3]
        /\ \E i \in DOMAIN inbox[1] : inbox[1][i] = Msg("user-connected", 3, 3)

\* The feedback lines of a section, in order.
FeedbackOf(section) == SelectSeq(section.lines, IsFeedback)

\* C31: the offer the auto sender sets locally and sends has, in every video section,
\* exactly one feedback line, the transport-cc line its patch added, whatever
\* feedback lines the created offer had.
C31_OneFeedbackLine ==
    (descs.kind = "offer" /\ descs.by \in Auto) =>
        /\ descs.set = descs.sent
        /\ DOMAIN descs.set = DOMAIN descs.made
        /\ \A i \in DOMAIN descs.made :
             descs.made[i].kind = "video" =>
                 FeedbackOf(descs.set[i]) = <<"a=rtcp-fb:* transport-cc">>

\* The auto sender patched an offer whose video section came with a transport-cc
\* line and a second feedback line of its own.
C31_Witness ==
    /\ descs.kind = "offer"
    /\ descs.by \in Auto
    /\ \E i \in DOMAIN descs.made :
         /\ descs.made[i].kind = "video"
         /\ Len(FeedbackOf(descs.made[i])) = 2
         /\ "a=rtcp-fb:96 transport-cc" \in LinesOf(descs.made[i])
         /\ FeedbackOf(descs.set[i]) = <<"a=rtcp-fb:* transport-cc">>

\* C32: the description a receiver sets as remote description for an offer of the
\* auto sender has at most one transport-cc feedback line in every video section.
C32_NoDuplicateTransportCc ==
    (descs.kind = "remote" /\ descs.from \in Auto) =>
        \A i \in DOMAIN descs.set :
            descs.set[i].kind = "video" =>
                Cardinality({j \in DOMAIN descs.set[i].lines :
                    descs.set[i].lines[j] \in {"a=rtcp-fb:* transport-cc",
                                               "a=rtcp-fb:96 transport-cc"}}) <= 1

\* What the handling of an offer has done on a receiver's connection so far.
HandledBy(q) == <<q.step, q.remote, q.local>>

\* C33: on a receiver, the handling of one offer never acts on the connection made
\* for another. A step of a handler changes only the connection the receiver refers
\* to, and that connection keeps the offer and the offering id it was made for; an
\* answer delivered to a participant comes from the connection on which the offer of
\* that participant was set as remote description.
C33_HandlersKeepTheirConnection ==
    [][/\ \A q \in DOMAIN pcs :
            pcs[q].owner \in Receivers =>
                /\ ~pcs'[q].closed => pcs'[q].offer = pcs[q].offer /\ pcs'[q].peer = pcs[q].peer
                /\ (~pcs'[q].closed /\ HandledBy(pcs'[q]) # HandledBy(pcs[q]))
                       => pcRef[pcs[q].owner] = q /\ pcRef'[pcs[q].owner] = q
       /\ \A t \in Ids : \A m \in Added(t) :
            m.ev = "answer" =>
                /\ pcs[m.payload.pc].owner \in Receivers
                /\ pcs[m.payload.pc].remote
                /\ pcs[m.payload.pc].offer.pc = m.payload.re
                /\ pcs[m.payload.re].owner \in Senders
                /\ Sid(pcs[m.payload.re].owner) = t]_vars

\* A receiver took a second offer while it was still handling the first: the first
\* connection was closed in the middle of its negotiation, and the answer of the
\* second one waits at the participant that offered it.
C33_Witness ==
    \E t \in Ids : \E i \in DOMAIN inbox[t] :
        /\ inbox[t][i].ev = "answer"
        /\ pcs[inbox[t][i].payload.pc].owner \in Receivers
        /\ Sid(pcs[inbox[t][i].payload.re].owner) = t
        /\ \E q \in DOMAIN pcs :
             /\ q < inbox[t][i].payload.pc
             /\ pcs[q].owner = pcs[inbox[t][i].payload.pc].owner
             /\ pcs[q].closed
             /\ pcs[q].step \in {"setRemote", "createAnswer"}

\* C34: a sender sets an answer as remote description only on the session whose
\* offer it answers: a session that gets its remote description in the step that
\* handles an answer is the one that made the offer the answer was created for.
\* Stated for the answers to offers that carry the media track, taken by sessions that
\* carry it too, so that the media sections of answer and session agree.
C34_AnswerOnItsOwnSession ==
    [][\A c \in Senders :
         (Took(c, "answer") /\ pcs[Event(c).payload.pc].offer.tracks)
             => \A q \in DOMAIN pcs :
                  (~pcs[q].remote /\ pcs'[q].remote /\ pcs[q].tracks)
                      => q = Event(c).payload.re]_vars

\* The links of an auto sender that are connected or trying to connect: the one
\* socketRef refers to and those replaced before it, none of which is ever closed.
LinksAlive(c) == Len(links[c]) + 1

\* The sockets the server holds for client c.
ServerIds(c) == ({Sid(c)} \cup {links[c][i].id : i \in DOMAIN links[c]}) \cap connected

\* C35: an auto sender has at most one transport link that is connected or trying
\* to connect, and the server holds at most one socket for it.
C35_OneLink ==
    \A c \in Auto : LinksAlive(c) <= 1 /\ Cardinality(ServerIds(c)) <= 1

\* C38: an auto sender holds at most one live media stream: a stream acquired
\* earlier is stopped or reused before the reference is replaced.
C38_OneLiveStream ==
    \A c \in Auto : live[c] <= 1

\* C36: an offer, answer or ice-candidate that names a targetId reaches at most one
\* link, whatever the targetId is; in particular not the members of a room whose id
\* the targetId equals.
C36_TargetedAtMostOne ==
    (last.ev \in {"offer", "answer", "ice-candidate"} /\ last.target # NoTarget)
        => Cardinality(last.to) <= 1

\* C40: every offer, answer and ice-candidate the server delivers carries the id of
\* the link that emitted it as senderId and the payload that link sent.
C40_SenderIdIsEmitter ==
    last.ev \in {"offer", "answer", "ice-candidate"}
        => \A t \in Ids : \A i \in DOMAIN inbox[t] :
               inbox[t][i] = Msg(last.ev, last.payload, last.from)

\* An answer that names another link as its target was delivered to that link while
\* a third link was connected.
C40_Witness ==
    /\ last.ev = "answer"
    /\ last.target \in connected
    /\ last.target # last.from
    /\ inbox[last.target] = <<Msg("answer", last.payload, last.from)>>
    /\ Cardinality(connected) = 3

\* The open peer connections of a client.
Open(c) == {p \in DOMAIN pcs : pcs[p].owner = c /\ ~pcs[p].closed}

\* C39: a receiver has at most one open peer connection, the one it refers to.
C39_OneOpenConnection ==
    \A c \in Receivers : Cardinality(Open(c)) <= 1 /\ Open(c) \subseteq {pcRef[c]}

\* A receiver took a second offer: the connection of the first is closed, the one of
\* the second is open, negotiated and the one the receiver refers to.
C39_Witness ==
    \E c \in Receivers : \E p \in Open(c) : \E q \in DOMAIN pcs :
        /\ q < p
        /\ pcs[q].owner = c
        /\ pcs[q].closed
        /\ pcRef[c] = p
        /\ pcs[p].remote
        /\ pcs[p].local

\* C37: once every signaling message in flight has been delivered, every key of the
\* session map of a sender whose link is up is the id of a socket connected to the
\* server.
C37_KeysAreConnected ==
    (\A t \in Ids : inbox[t] = <<>>)
        => \A c \in Senders : sock[c].up => Keys(c) \subseteq connected

====
